---- MODULE Spec2Model ----
(***************************************************************************)
(* baste64: base64 codec over 16-byte chunks (src/lib.rs).                 *)
(*                                                                         *)
(* The stream drivers encode_to and decode_to are modelled statement by    *)
(* statement from src/lib.rs.  The chunk kernels and the length functions  *)
(* (modules encode_chunk and decode_chunk) are not part of src/ and are    *)
(* modelled from sections 4.1-4.3 of the specification.                    *)
(*                                                                         *)
(* Bytes are integers 0..255, byte strings are sequences (1-based), and    *)
(* pointers are 0-based offsets into the buffer they point into.           *)
(***************************************************************************)
EXTENDS Integers, Sequences, FiniteSets, TLC

VARIABLES
    call,      \* which entry point was called: "encode", "decode", or
               \* "roundtrip" (decode of the output of a finished encode)
    raw,       \* the bytes first handed to encode (<<>> for a decode call)
    prior,     \* the content of the caller's out vector when the call began
    pc,        \* position inside encode_to / decode_to
    data,      \* the argument `data` of the running call
    payload,   \* decode_to: `data` after the padding match (line 119-121)
    out,       \* the allocation of the Vec `out`; Len(out) is its capacity
    out_len,   \* the Vec's logical length (out.len())
    start,     \* read cursor (`start` in encode_to, consumed bytes in decode_to)
    end,       \* encode_to: the loop boundary `end`
    raw_out,   \* write cursor, as an offset from out.as_ptr()
    failed,    \* decode_to: the accumulated illegal-byte flag
    chunks,    \* number of chunk kernel invocations made by the call
    result     \* "none" while running, then the outcome of the call

vars == <<call, raw, prior, pc, data, payload, out, out_len, start, end,
          raw_out, failed, chunks, result>>

----------------------------------------------------------------------------
(* Bounds of the explored inputs.                                          *)

\* longest raw input handed to encode
MaxLen == 64
\* number of raw byte patterns
NumPatterns == 3
\* longest alphabet text handed to decode (before corruption and padding)
MaxTextLen == 35
\* most trailing '=' appended to a decode input
MaxPad == 3
\* longest prior content of the out vector handed to decode_to
MaxPrior == 1

----------------------------------------------------------------------------
(* Generic helpers.                                                        *)

Min(a, b) == IF a < b THEN a ELSE b

Max(a, b) == IF a > b THEN a ELSE b

Fill(n, b) == [i \in 1..n |-> b]

\* a byte of reserved but not yet written memory
Uninit == -1

Eq == 61

\* Vec::reserve(additional): capacity becomes at least len + additional.
\* The model takes the least capacity the call guarantees.
Reserve(buf, len, additional) ==
    IF Len(buf) >= len + additional THEN buf
    ELSE SubSeq(buf, 1, len) \o Fill(additional, Uninit)

\* write_unaligned of a 16-byte vector at offset `at`
Write16(buf, at, v) ==
    [i \in 1..Len(buf) |-> IF i > at /\ i <= at + 16 THEN v[i - at] ELSE buf[i]]

\* Vec::extend_from_slice: append at the logical length, growing if needed
Extend(buf, len, bytes) ==
    [i \in 1..Max(Len(buf), len + Len(bytes)) |->
        IF i > len /\ i <= len + Len(bytes) THEN bytes[i - len] ELSE buf[i]]

----------------------------------------------------------------------------
(* SizeMath (specification 4.1).                                           *)

encoded_len(n) ==
    (n \div 3) * 4 + (CASE n % 3 = 0 -> 0 [] n % 3 = 1 -> 2 [] OTHER -> 3)

\* decoded_len signals failure on a remainder of 1
decoded_len_fails(n) == n % 4 = 1

decoded_len(n) ==
    (n \div 4) * 3 + (CASE n % 4 = 0 -> 0 [] n % 4 = 2 -> 1 [] n % 4 = 3 -> 2
                        [] OTHER -> 0)

----------------------------------------------------------------------------
(* ChunkEncoder (specification 4.2).                                       *)

\* the j-th (0-based) 6-bit field of the 12 meaningful bytes of a window
EncSextet(w, j) ==
    LET g  == j \div 4
        b0 == w[3 * g + 1]
        b1 == w[3 * g + 2]
        b2 == w[3 * g + 3]
    IN  CASE j % 4 = 0 -> b0 \div 4
          [] j % 4 = 1 -> (b0 % 4) * 16 + (b1 \div 16)
          [] j % 4 = 2 -> (b1 % 16) * 4 + (b2 \div 64)
          [] OTHER     -> b2 % 64

\* range-based mapping of a 6-bit index to its character
ToAscii(v) ==
    CASE v < 26 -> v + 65
      [] v < 52 -> v + 71
      [] v < 62 -> v - 4
      [] v = 62 -> 43
      [] OTHER  -> 47

encode_chunk(w) == [j \in 1..16 |-> ToAscii(EncSextet(w, j - 1))]

----------------------------------------------------------------------------
(* ChunkDecoder (specification 4.3).                                       *)

IsLegal(c) ==
    \/ (c >= 65 /\ c <= 90)
    \/ (c >= 97 /\ c <= 122)
    \/ (c >= 48 /\ c <= 57)
    \/ c = 43
    \/ c = 47

\* range-based 6-bit value of a character; an illegal lane contributes 0
FromAscii(c) ==
    CASE c >= 65 /\ c <= 90  -> c - 65
      [] c >= 97 /\ c <= 122 -> c - 71
      [] c >= 48 /\ c <= 57  -> c + 4
      [] c = 43              -> 62
      [] c = 47              -> 63
      [] OTHER               -> 0

\* the m-th (0-based) output byte of a 16-character window
DecByte(a, m) ==
    LET g  == m \div 3
        v0 == FromAscii(a[4 * g + 1])
        v1 == FromAscii(a[4 * g + 2])
        v2 == FromAscii(a[4 * g + 3])
        v3 == FromAscii(a[4 * g + 4])
    IN  CASE m % 3 = 0 -> v0 * 4 + (v1 \div 16)
          [] m % 3 = 1 -> (v1 % 16) * 16 + (v2 \div 4)
          [] OTHER     -> (v2 % 4) * 64 + v3

\* the kernel's result: 16 bytes (12 meaningful) and the chunk's flag.
\* decode_to reads the flag with is_err() and the bytes with unwrap(); the
\* bytes are there whether or not the flag is set.
decode_chunk(a) ==
    [bytes  |-> [m \in 1..16 |-> IF m <= 12 THEN DecByte(a, m - 1) ELSE 0],
     is_err |-> \E j \in 1..16 : ~IsLegal(a[j])]

----------------------------------------------------------------------------
(* The locals of the running call as one record, so that every step of a   *)
(* driver is a function from locals to locals.                             *)

Cur ==
    [pc |-> pc, data |-> data, payload |-> payload, out |-> out,
     out_len |-> out_len, start |-> start, end |-> end, raw_out |-> raw_out,
     failed |-> failed, chunks |-> chunks, result |-> result]

Install(s) ==
    /\ pc' = s.pc
    /\ data' = s.data
    /\ payload' = s.payload
    /\ out' = s.out
    /\ out_len' = s.out_len
    /\ start' = s.start
    /\ end' = s.end
    /\ raw_out' = s.raw_out
    /\ failed' = s.failed
    /\ chunks' = s.chunks
    /\ result' = s.result

\* the locals at the entry of a call on `input` with out vector `vec`
Entry(at, input, vec) ==
    [pc |-> at, data |-> input, payload |-> <<>>, out |-> vec,
     out_len |-> Len(vec), start |-> 0, end |-> 0, raw_out |-> 0,
     failed |-> FALSE, chunks |-> 0, result |-> "none"]

\* a fixed-width access outside its buffer: undefined behaviour, kept as an
\* outcome of its own that ends the call
Undefined(s) == [s EXCEPT !.pc = "fault", !.result = "UB"]

\* the visible content of the out vector
Visible(s) == SubSeq(s.out, 1, s.out_len)

----------------------------------------------------------------------------
(* encode_to (src/lib.rs 52-116).                                          *)

\* faulty variant of FastEnd: a chunk is held back for the tail whatever
\* the remainder is
FastEndAlwaysHoldsBack(n) ==
    IF n < 16 THEN 0 ELSE n - (n % 12) - 12

\* lines 61-69: the boundary of the fast-path loop, as an offset into data
FastEnd(n) ==
    IF n % 12 >= 4 THEN n - (n % 12)
    ELSE IF n < 16 THEN 0
    ELSE n - (n % 12) - 12

\* faulty variant of Padding: the two arms exchanged
PaddingSwapped(len) ==
    CASE len % 4 = 2 -> <<Eq>>
      [] len % 4 = 3 -> <<Eq, Eq>>
      [] OTHER       -> <<>>

\* lines 109-113: the padding appended for a logical length
Padding(len) ==
    CASE len % 4 = 2 -> <<Eq, Eq>>
      [] len % 4 = 3 -> <<Eq>>
      [] OTHER       -> <<>>

\* faulty variant of EncodeEntryStep: no check for an empty input
EncodeEntryStepUnchecked(s) ==
    [s EXCEPT !.out = Reserve(s.out, s.out_len, encoded_len(Len(s.data)) + 16),
              !.raw_out = s.out_len,
              !.start = 0,
              !.end = FastEnd(Len(s.data)),
              !.pc = "enc_fast"]

\* faulty variant of EncodeEntryStep: the 16 bytes of slack are not reserved
EncodeEntryStepNoSlack(s) ==
    IF Len(s.data) = 0
    THEN [s EXCEPT !.pc = "enc_done", !.result = "EmptyInput"]
    ELSE [s EXCEPT !.out = Reserve(s.out, s.out_len, encoded_len(Len(s.data))),
                   !.raw_out = s.out_len,
                   !.start = 0,
                   !.end = FastEnd(Len(s.data)),
                   !.pc = "enc_fast"]

\* lines 53-69
EncodeEntryStep(s) ==
    IF Len(s.data) = 0
    THEN [s EXCEPT !.pc = "enc_done", !.result = "EmptyInput"]
    ELSE [s EXCEPT !.out = Reserve(s.out, s.out_len, encoded_len(Len(s.data)) + 16),
                   !.raw_out = s.out_len,
                   !.start = 0,
                   !.end = FastEnd(Len(s.data)),
                   !.pc = "enc_fast"]

\* lines 71-82, one iteration
EncodeFastStep(s) ==
    IF s.start + 16 > Len(s.data) \/ s.raw_out + 16 > Len(s.out)
    THEN Undefined(s)
    ELSE LET chunk   == SubSeq(s.data, s.start + 1, s.start + 16)
             encoded == encode_chunk(chunk)
         IN  [s EXCEPT !.start = s.start + 12,
                       !.out = Write16(s.out, s.raw_out, encoded),
                       !.raw_out = s.raw_out + 16,
                       !.chunks = s.chunks + 1]

\* line 71 (loop exit) and line 84
EncodeFastDoneStep(s) == [s EXCEPT !.end = Len(s.data), !.pc = "enc_tail"]

\* faulty variant of EncodeTailStep: the write cursor moves by the full
\* width of the kernel's output
EncodeTailStepUntrimmed(s) ==
    LET rest       == s.end - s.start
        chunk      == SubSeq(s.data, s.start + 1, s.start + Min(rest, 12))
        temp_chunk == chunk \o Fill(16 - Len(chunk), 0)
        encoded    == encode_chunk(temp_chunk)
    IN  IF s.raw_out + 16 > Len(s.out)
        THEN Undefined(s)
        ELSE [s EXCEPT !.start = s.start + Len(chunk),
                       !.out = Write16(s.out, s.raw_out, encoded),
                       !.raw_out = s.raw_out + 16,
                       !.chunks = s.chunks + 1]

\* lines 85-102, one iteration
EncodeTailStep(s) ==
    LET rest       == s.end - s.start
        chunk      == SubSeq(s.data, s.start + 1, s.start + Min(rest, 12))
        temp_chunk == chunk \o Fill(16 - Len(chunk), 0)
        encoded    == encode_chunk(temp_chunk)
    IN  IF s.raw_out + 16 > Len(s.out)
        THEN Undefined(s)
        ELSE [s EXCEPT !.start = s.start + Len(chunk),
                       !.out = Write16(s.out, s.raw_out, encoded),
                       !.raw_out = s.raw_out + encoded_len(Len(chunk)),
                       !.chunks = s.chunks + 1]

\* lines 104-107
EncodeSetLenStep(s) == [s EXCEPT !.out_len = s.raw_out, !.pc = "enc_pad"]

\* lines 109-115
EncodePadStep(s) ==
    LET pad == Padding(s.out_len)
    IN  [s EXCEPT !.out = Extend(s.out, s.out_len, pad),
                  !.out_len = s.out_len + Len(pad),
                  !.result = "Ok",
                  !.pc = "enc_done"]

----------------------------------------------------------------------------
(* decode_to (src/lib.rs 118-169).                                         *)

\* faulty variant of Strip: the arm for two trailing '=' is missing
StripOne(d) ==
    LET n == Len(d)
    IN  IF n >= 1 /\ d[n] = Eq THEN SubSeq(d, 1, n - 1) ELSE d

\* lines 119-121: [p @ .., b'=', b'='] | [p @ .., b'='] | p => p
Strip(d) ==
    LET n == Len(d)
    IN  IF n >= 2 /\ d[n] = Eq /\ d[n - 1] = Eq THEN SubSeq(d, 1, n - 2)
        ELSE IF n >= 1 /\ d[n] = Eq THEN SubSeq(d, 1, n - 1)
        ELSE d

\* lines 119-131. decoded_len returns a plain usize (it is added to 16 at
\* line 127), so when it signals failure the call ends there, with neither
\* Ok nor Err: outcome "Panic".
DecodeEntryStep(s) ==
    LET p == Strip(s.data)
    IN  IF Len(p) = 0
        THEN [s EXCEPT !.payload = p, !.result = "Ok", !.pc = "dec_done"]
        ELSE IF decoded_len_fails(Len(p))
        THEN [s EXCEPT !.payload = p, !.result = "Panic", !.pc = "dec_done"]
        ELSE [s EXCEPT !.payload = p,
                       !.out = Reserve(s.out, s.out_len, decoded_len(Len(p)) + 16),
                       !.raw_out = s.out_len,
                       !.start = 0,
                       !.failed = FALSE,
                       !.pc = "dec_chunks"]

\* faulty variant of DecodeChunkStep: the flag is assigned, not accumulated
DecodeChunkStepOverwritesFlag(s) ==
    LET ascii   == SubSeq(s.payload, s.start + 1, s.start + 16)
        decoded == decode_chunk(ascii)
    IN  IF s.raw_out + 16 > Len(s.out)
        THEN Undefined(s)
        ELSE [s EXCEPT !.failed = decoded.is_err,
                       !.out = Write16(s.out, s.raw_out, decoded.bytes),
                       !.raw_out = s.raw_out + 12,
                       !.start = s.start + 16,
                       !.chunks = s.chunks + 1]

\* lines 133-143, one iteration over a chunk of chunks_exact(16)
DecodeChunkStep(s) ==
    LET ascii   == SubSeq(s.payload, s.start + 1, s.start + 16)
        decoded == decode_chunk(ascii)
    IN  IF s.raw_out + 16 > Len(s.out)
        THEN Undefined(s)
        ELSE [s EXCEPT !.failed = s.failed \/ decoded.is_err,
                       !.out = Write16(s.out, s.raw_out, decoded.bytes),
                       !.raw_out = s.raw_out + 12,
                       !.start = s.start + 16,
                       !.chunks = s.chunks + 1]

\* faulty variant of DecodeRestStep: the write cursor moves by a full chunk
DecodeRestStepUntrimmed(s) ==
    LET rest    == SubSeq(s.payload, s.start + 1, Len(s.payload))
        ascii   == rest \o Fill(16 - Len(rest), 65)
        decoded == decode_chunk(ascii)
    IN  IF Len(rest) = 0
        THEN [s EXCEPT !.pc = "dec_check"]
        ELSE IF s.raw_out + 16 > Len(s.out)
        THEN Undefined(s)
        ELSE [s EXCEPT !.failed = s.failed \/ decoded.is_err,
                       !.out = Write16(s.out, s.raw_out, decoded.bytes),
                       !.raw_out = s.raw_out + 12,
                       !.start = s.start + Len(rest),
                       !.chunks = s.chunks + 1,
                       !.pc = "dec_check"]

\* lines 145-157
DecodeRestStep(s) ==
    LET rest    == SubSeq(s.payload, s.start + 1, Len(s.payload))
        ascii   == rest \o Fill(16 - Len(rest), 65)
        decoded == decode_chunk(ascii)
    IN  IF Len(rest) = 0
        THEN [s EXCEPT !.pc = "dec_check"]
        ELSE IF s.raw_out + 16 > Len(s.out)
        THEN Undefined(s)
        ELSE [s EXCEPT !.failed = s.failed \/ decoded.is_err,
                       !.out = Write16(s.out, s.raw_out, decoded.bytes),
                       !.raw_out = s.raw_out + decoded_len(Len(rest)),
                       !.start = s.start + Len(rest),
                       !.chunks = s.chunks + 1,
                       !.pc = "dec_check"]

\* lines 159-168
DecodeFinishStep(s) ==
    IF s.failed
    THEN [s EXCEPT !.result = "InvalidCharacter", !.pc = "dec_done"]
    ELSE [s EXCEPT !.out_len = s.raw_out, !.result = "Ok", !.pc = "dec_done"]

\* decode_to as one function of its arguments: the steps above in the
\* order the control flow of lines 118-169 takes them
RECURSIVE RunDecode(_)
RunDecode(s) ==
    CASE s.pc = "dec_entry" -> RunDecode(DecodeEntryStep(s))
      [] s.pc = "dec_chunks" /\ s.start + 16 <= Len(s.payload) ->
            RunDecode(DecodeChunkStep(s))
      [] s.pc = "dec_chunks" /\ s.start + 16 > Len(s.payload) ->
            RunDecode(DecodeRestStep(s))
      [] s.pc = "dec_check" -> RunDecode(DecodeFinishStep(s))
      [] OTHER -> s

decode_to(input, vec) == RunDecode(Entry("dec_entry", input, vec))

----------------------------------------------------------------------------
(* Reference codec: RFC 4648 base64 by table lookup over 24-bit groups,    *)
(* written independently of the chunk kernels and of the drivers.          *)

RefAlphabet ==
    << 65, 66, 67, 68, 69, 70, 71, 72, 73, 74, 75, 76, 77,
       78, 79, 80, 81, 82, 83, 84, 85, 86, 87, 88, 89, 90,
       97, 98, 99, 100, 101, 102, 103, 104, 105, 106, 107, 108, 109,
       110, 111, 112, 113, 114, 115, 116, 117, 118, 119, 120, 121, 122,
       48, 49, 50, 51, 52, 53, 54, 55, 56, 57, 43, 47 >>

RefChar(n24, k) == RefAlphabet[((n24 \div (64 ^ (3 - k))) % 64) + 1]

RECURSIVE RefEncode(_)
RefEncode(b) ==
    CASE Len(b) = 0 -> <<>>
      [] Len(b) = 1 ->
            LET n24 == b[1] * 65536
            IN  <<RefChar(n24, 0), RefChar(n24, 1), Eq, Eq>>
      [] Len(b) = 2 ->
            LET n24 == b[1] * 65536 + b[2] * 256
            IN  <<RefChar(n24, 0), RefChar(n24, 1), RefChar(n24, 2), Eq>>
      [] OTHER ->
            LET n24 == b[1] * 65536 + b[2] * 256 + b[3]
            IN  <<RefChar(n24, 0), RefChar(n24, 1), RefChar(n24, 2), RefChar(n24, 3)>>
                \o RefEncode(SubSeq(b, 4, Len(b)))

RefInAlphabet(c) == \E k \in 1..64 : RefAlphabet[k] = c

RefIndex(c) == (CHOOSE k \in 1..64 : RefAlphabet[k] = c) - 1

----------------------------------------------------------------------------
(* Inputs.                                                                 *)

RawByte(k, i) ==
    CASE k = 1 -> 0
      [] k = 2 -> 255
      [] OTHER -> (i * (2 * k + 1) * 7 + k * 85) % 256

RawInput(k, n) == [i \in 1..n |-> RawByte(k, i)]

\* "Hello World" (tests::test_hello_world)
HelloWorld == <<72, 101, 108, 108, 111, 32, 87, 111, 114, 108, 100>>

\* "SGVsbG8gV29ybGQ="
HelloWorldText ==
    <<83, 71, 86, 115, 98, 71, 56, 103, 86, 50, 57, 121, 98, 71, 81, 61>>

RawInputs ==
    {RawInput(k, n) : k \in 1..NumPatterns, n \in 0..MaxLen} \cup {HelloWorld}

\* an alphabet text that runs through all 64 characters
Text(n) == [i \in 1..n |-> RefAlphabet[((i * 37 + 11) % 64) + 1]]

\* bytes outside the alphabet: '=', '!', 0xFF, and '[' (next after 'Z')
BadBytes == {Eq, 33, 255, 91}

Corrupt(t, p, b) == [t EXCEPT ![p] = b]

TextInputs ==
    {HelloWorldText}
    \cup {Text(n) \o Fill(q, Eq) : n \in 0..MaxTextLen, q \in 0..MaxPad}
    \cup UNION {{Corrupt(Text(n), p, b) \o Fill(q, Eq) :
                    p \in 1..n, b \in BadBytes, q \in 0..MaxPad} :
                n \in 1..MaxTextLen}

Priors == {Fill(m, 170) : m \in 0..MaxPrior}

----------------------------------------------------------------------------
(* The state machine.                                                      *)

Init ==
    \/ /\ call = "encode"
       /\ raw \in RawInputs
       /\ prior = <<>>
       /\ pc = "enc_entry"
       /\ data = raw
       /\ payload = <<>>
       /\ out = <<>>
       /\ out_len = 0
       /\ start = 0
       /\ end = 0
       /\ raw_out = 0
       /\ failed = FALSE
       /\ chunks = 0
       /\ result = "none"
    \/ /\ call = "decode"
       /\ raw = <<>>
       /\ prior \in Priors
       /\ pc = "dec_entry"
       /\ data \in TextInputs
       /\ payload = <<>>
       /\ out = prior
       /\ out_len = Len(prior)
       /\ start = 0
       /\ end = 0
       /\ raw_out = 0
       /\ failed = FALSE
       /\ chunks = 0
       /\ result = "none"

EncodeEntry ==
    /\ pc = "enc_entry"
    /\ Install(EncodeEntryStep(Cur))
    /\ UNCHANGED <<call, raw, prior>>

EncodeFast ==
    /\ pc = "enc_fast"
    /\ start # end
    /\ Install(EncodeFastStep(Cur))
    /\ UNCHANGED <<call, raw, prior>>

EncodeFastDone ==
    /\ pc = "enc_fast"
    /\ start = end
    /\ Install(EncodeFastDoneStep(Cur))
    /\ UNCHANGED <<call, raw, prior>>

EncodeTail ==
    /\ pc = "enc_tail"
    /\ start < end
    /\ Install(EncodeTailStep(Cur))
    /\ UNCHANGED <<call, raw, prior>>

EncodeSetLen ==
    /\ pc = "enc_tail"
    /\ ~(start < end)
    /\ Install(EncodeSetLenStep(Cur))
    /\ UNCHANGED <<call, raw, prior>>

EncodePad ==
    /\ pc = "enc_pad"
    /\ Install(EncodePadStep(Cur))
    /\ UNCHANGED <<call, raw, prior>>

\* decode (lines 46-50) called on what encode returned, as in
\* tests::test_readme_example
RoundTrip ==
    /\ pc = "enc_done"
    /\ result = "Ok"
    /\ call' = "roundtrip"
    /\ Install(Entry("dec_entry", Visible(Cur), <<>>))
    /\ UNCHANGED <<raw, prior>>

DecodeEntry ==
    /\ pc = "dec_entry"
    /\ Install(DecodeEntryStep(Cur))
    /\ UNCHANGED <<call, raw, prior>>

DecodeChunk ==
    /\ pc = "dec_chunks"
    /\ start + 16 <= Len(payload)
    /\ Install(DecodeChunkStep(Cur))
    /\ UNCHANGED <<call, raw, prior>>

DecodeRest ==
    /\ pc = "dec_chunks"
    /\ start + 16 > Len(payload)
    /\ Install(DecodeRestStep(Cur))
    /\ UNCHANGED <<call, raw, prior>>

DecodeFinish ==
    /\ pc = "dec_check"
    /\ Install(DecodeFinishStep(Cur))
    /\ UNCHANGED <<call, raw, prior>>

Next ==
    \/ EncodeEntry
    \/ EncodeFast
    \/ EncodeFastDone
    \/ EncodeTail
    \/ EncodeSetLen
    \/ EncodePad
    \/ RoundTrip
    \/ DecodeEntry
    \/ DecodeChunk
    \/ DecodeRest
    \/ DecodeFinish

Spec == Init /\ [][Next]_vars

----------------------------------------------------------------------------
(* Reference decoder: a scalar decoder that looks at one character at a    *)
(* time, aborts at the first illegal one, and otherwise decodes by table   *)
(* lookup.  It shares the padding rule and the length function with        *)
(* decode_to and nothing else.                                             *)

RECURSIVE TrailingEq(_)
TrailingEq(d) ==
    IF Len(d) > 0 /\ d[Len(d)] = Eq THEN 1 + TrailingEq(SubSeq(d, 1, Len(d) - 1))
    ELSE 0

\* d without up to two of its trailing '='
RefStrip(d) == SubSeq(d, 1, Len(d) - Min(2, TrailingEq(d)))

\* d without any of its trailing '='
Core(d) == SubSeq(d, 1, Len(d) - TrailingEq(d))

HasIllegal(p) == \E i \in 1..Len(p) : ~RefInAlphabet(p[i])

RECURSIVE RefDecodeGroups(_)
RefDecodeGroups(p) ==
    LET v(i) == RefIndex(p[i])
    IN  CASE Len(p) < 2 -> <<>>
          [] Len(p) = 2 -> <<v(1) * 4 + (v(2) \div 16)>>
          [] Len(p) = 3 -> <<v(1) * 4 + (v(2) \div 16),
                             (v(2) % 16) * 16 + (v(3) \div 4)>>
          [] OTHER ->
                LET n24 == v(1) * 262144 + v(2) * 4096 + v(3) * 64 + v(4)
                IN  <<n24 \div 65536, (n24 \div 256) % 256, n24 % 256>>
                    \o RefDecodeGroups(SubSeq(p, 5, Len(p)))

\* <<outcome, content of the out vector>> of the scalar decoder
ScalarDecode(input, vec) ==
    LET p == RefStrip(input)
    IN  IF Len(p) = 0 THEN <<"Ok", vec>>
        ELSE IF decoded_len_fails(Len(p)) THEN <<"Panic", vec>>
        ELSE IF HasIllegal(p) THEN <<"InvalidCharacter", vec>>
        ELSE <<"Ok", vec \o RefDecodeGroups(p)>>

Outcome(s) == <<s.result, Visible(s)>>

\* number of kernel invocations a payload of n characters needs
NumChunks(n) == (n + 15) \div 16

----------------------------------------------------------------------------
(* Properties.                                                             *)

\* C1: round trip. Every non-empty raw input is encoded successfully, and
\* decoding what encode returned succeeds and returns exactly the input.
RoundTripLaw ==
    /\ (pc = "enc_done" /\ Len(raw) > 0) => result = "Ok"
    /\ (call = "roundtrip" /\ pc = "dec_done") =>
            (result = "Ok" /\ Visible(Cur) = raw)
    /\ (call = "roundtrip" /\ pc = "dec_entry") => Len(raw) > 0
    /\ pc # "fault"

\* a 25-byte input (one fast chunk, then tail iterations of 12 and 1 bytes)
\* came back from the round trip
RoundTripReached ==
    /\ call = "roundtrip"
    /\ pc = "dec_done"
    /\ Len(raw) = 25
    /\ raw[1] = 255
    /\ Visible(Cur) = raw

\* C2: for every non-empty input, what encode returns is the standard
\* base64 encoding of the input, padding included; nothing of the reserved
\* slack and nothing encoded from the zero fill of a scratch window is part
\* of it.
EncodeIsStandardBase64 ==
    (pc = "enc_done" /\ Len(data) > 0) =>
        /\ result = "Ok"
        /\ Visible(Cur) = RefEncode(data)
        /\ raw_out = encoded_len(Len(data))
        /\ \A i \in 1..out_len : out[i] # Uninit

\* encode("Hello World") returned "SGVsbG8gV29ybGQ="
HelloWorldEncoded ==
    /\ pc = "enc_done"
    /\ data = HelloWorld
    /\ Visible(Cur) = HelloWorldText

\* C3 (as stated): decode fails with InvalidCharacter for every input with a
\* byte outside the alphabet in its payload, and for every input with '='
\* anywhere but in its last two bytes.
RejectsEveryIllegalInput ==
    (call = "decode" /\ pc = "dec_done") =>
        /\ HasIllegal(RefStrip(data)) => result = "InvalidCharacter"
        /\ (\E i \in 1..(Len(data) - 2) : data[i] = Eq) =>
                result = "InvalidCharacter"

\* C4: padding law. When the logical length is set from the write cursor it
\* is 0, 2 or 3 modulo 4, never 1; encode then appends nothing, "==" or "="
\* respectively, and the returned length is a multiple of 4.
PaddingLaw ==
    /\ pc = "enc_pad" => (out_len = raw_out /\ out_len % 4 \in {0, 2, 3})
    /\ (pc = "enc_done" /\ result = "Ok") =>
        /\ out_len % 4 = 0
        /\ out_len - raw_out = (CASE raw_out % 4 = 0 -> 0
                                  [] raw_out % 4 = 2 -> 2
                                  [] raw_out % 4 = 3 -> 1
                                  [] OTHER -> -1)
        /\ \A i \in (raw_out + 1)..out_len : out[i] = Eq
        /\ \A i \in 1..raw_out : out[i] # Eq

\* encode finished on an input that needed "==" and one that needed "="
PaddedTwice ==
    /\ pc = "enc_done"
    /\ result = "Ok"
    /\ raw_out % 4 = 2
    /\ out_len = raw_out + 2
    /\ Len(data) > 12

\* C5: decode strips trailing padding exactly once. With p empty or ending
\* in a byte other than '=', decode(p), decode(p "=") and decode(p "==")
\* have the same outcome; with p empty all three succeed and add nothing to
\* the output; a third trailing '=' stays in the payload.
StripsPaddingOnce ==
    (call = "decode" /\ pc = "dec_done") =>
        LET p == Core(data)
            k == TrailingEq(data)
        IN  /\ k <= 2 =>
                /\ payload = p
                /\ Outcome(Cur) = Outcome(decode_to(p, prior))
                /\ Outcome(Cur) = Outcome(decode_to(p \o <<Eq>>, prior))
                /\ Outcome(Cur) = Outcome(decode_to(p \o <<Eq, Eq>>, prior))
                /\ Len(p) = 0 => Outcome(Cur) = <<"Ok", prior>>
            /\ k >= 3 =>
                /\ payload = p \o Fill(k - 2, Eq)
                /\ result # "Ok"

\* decode of a valid 14-character payload followed by "==" returned its
\* 10 bytes
StrippedTwo ==
    /\ call = "decode"
    /\ pc = "dec_done"
    /\ TrailingEq(data) = 2
    /\ Len(payload) = 14
    /\ result = "Ok"
    /\ out_len = Len(prior) + 10

\* C6: encode fails with EmptyInput exactly when the input is empty; it
\* then has written nothing to the output buffer; every non-empty input
\* succeeds.
EmptyInputOnly ==
    /\ pc # "fault"
    /\ pc = "enc_done" =>
        /\ (result = "EmptyInput") <=> (Len(data) = 0)
        /\ Len(data) = 0 => (out = <<>> /\ out_len = 0 /\ chunks = 0)
        /\ Len(data) > 0 => result = "Ok"

\* encode("") failed
EmptyInputRejected ==
    /\ pc = "enc_done"
    /\ Len(data) = 0
    /\ result = "EmptyInput"

\* C7 (as stated): decode fails with InvalidCharacter for every input whose
\* payload, after the permitted padding is stripped, has length 1 modulo 4.
RejectsLengthOneModFour ==
    (pc = "dec_done" /\ Len(RefStrip(data)) % 4 = 1) =>
        result = "InvalidCharacter"

\* C8: bounds of the fixed-width accesses. (i) The fast-path cursor moves in
\* steps of 12, meets the boundary exactly, and every 16-byte window read
\* at it lies inside the input. (ii) Every 16-byte write of encode and of
\* decode lies inside the region reserved for the computed length plus 16.
\* (iii) The visible length is set from the final write cursor and does not
\* exceed the computed logical length.
AccessesInBounds ==
    /\ pc # "fault"
    /\ pc = "enc_fast" =>
        /\ start <= end
        /\ start % 12 = 0
        /\ end % 12 = 0
        /\ raw_out = (start \div 12) * 16
        /\ start # end => start + 16 <= Len(data)
        /\ start # end => raw_out + 16 <= encoded_len(Len(data)) + 16
        /\ Len(out) >= encoded_len(Len(data)) + 16
    /\ (pc = "enc_tail" /\ start < end) =>
        /\ raw_out + 16 <= encoded_len(Len(data)) + 16
        /\ Len(out) >= encoded_len(Len(data)) + 16
    /\ pc = "enc_pad" =>
        /\ out_len = raw_out
        /\ out_len <= encoded_len(Len(data))
    /\ pc = "dec_chunks" =>
        /\ raw_out + 16 <= Len(prior) + decoded_len(Len(payload)) + 16
        /\ Len(out) >= Len(prior) + decoded_len(Len(payload)) + 16
        /\ start % 16 = 0
        /\ start <= Len(payload)
        /\ raw_out = Len(prior) + (start \div 16) * 12
    /\ (pc = "dec_done" /\ result = "Ok" /\ Len(payload) > 0) =>
        /\ out_len = raw_out
        /\ out_len <= Len(prior) + decoded_len(Len(payload))

\* a fast-path window that ends exactly at the end of a 28-byte input
WindowTouchesEnd ==
    /\ pc = "enc_fast"
    /\ start # end
    /\ start + 16 = Len(data)
    /\ Len(data) = 28

TailGetsFourToTwelve ==
    (pc = "enc_fast" /\ start = end) =>
        (Len(data) - start >= 4 /\ Len(data) - start <= 12)

\* C10 (amended): when the fast-path loop ends, at most 15 input bytes are
\* left for the tail path, and at least 4 unless the whole input is shorter
\* than 4 bytes, which is then left whole; the tail path takes them 12 at
\* a time, a shorter chunk only last.
TailGetsUpToFifteen ==
    /\ (pc = "enc_fast" /\ start = end) =>
        /\ Len(data) - start >= Min(Len(data), 4)
        /\ Len(data) - start <= 15
    /\ pc = "enc_tail" =>
        /\ Len(data) - start <= 15
        /\ start % 12 = 0 \/ start = Len(data)
    /\ pc = "enc_pad" => start = Len(data)

\* the fast-path loop ended with 13 bytes left
ThirteenLeft ==
    /\ pc = "enc_fast"
    /\ start = end
    /\ Len(data) - start = 13
    /\ Len(data) = 37

====
